---- MODULE Spec2Model ----
(***************************************************************************)
(* State-machine model of fastcache-proxy's decision core:                 *)
(*   - load_balancer/server.pyx   (Server)                                  *)
(*   - load_balancer.pyx          (LoadBalancer, five selection strategies) *)
(*   - cache_manager.pyx          (CacheManager over a TTL key-value store) *)
(***************************************************************************)
EXTENDS Integers, Sequences, FiniteSets, TLC

VARIABLES
    servers,             \* LoadBalancer.servers: sequence of Server records
    strategy,            \* LoadBalancer.strategy
    current_index,       \* LoadBalancer.current_index (C int)
    total_weight,        \* LoadBalancer.total_weight
    cumulative_weights,  \* LoadBalancer.cumulative_weights
    result,              \* what the last get_next_server call returned / raised
    draw,                \* value the last call obtained from random.randint
    calls,               \* number of calls made under a rotating strategy
    picks,               \* picks[i]: how many calls of a steady run returned
                         \* server i
    lastOp,              \* the operation that produced this state
    redis_client,        \* CacheManager.redis_client: "None" until connect()
    default_ttl,         \* CacheManager.default_ttl
    store,               \* the key-value store: key -> entry with its expiry
    now,                 \* the store's clock, in seconds
    cacheOp,             \* the last CacheManager operation: [op, key, failed]
    cacheResult,         \* what it returned
    written,             \* written[k]: the last set of k that returned True,
                         \* forgotten at the next set / delete of k
    redis_cluster,       \* CacheManager.redis_cluster
    use_cluster,         \* the use_cluster argument the manager was built with
    shard,               \* cluster deployment: the "cache:" keys held by the
                         \* nodes other than the one at redis_host:redis_port
    request,             \* the request handed to generate_cache_key
    cache_key            \* the key generate_cache_key returned for it

lbVars == <<servers, strategy, current_index, total_weight, cumulative_weights,
            result, draw, calls, picks, lastOp>>

keyVars == <<request, cache_key>>

cacheVars == <<redis_client, default_ttl, store, now, cacheOp, cacheResult,
               written, redis_cluster, use_cluster, shard, keyVars>>

vars == <<lbVars, cacheVars>>

-----------------------------------------------------------------------------
(* Bounds of the model *)

MaxServers == 2
MaxConn == 1
MaxCalls == 2
MaxTime == 3
MaxTtl == 2
MaxHeaders == 2

-----------------------------------------------------------------------------
(* Program constants *)

\* `cdef int current_index`: a 32-bit C int
IntMax == 2147483647
IntMin == -IntMax - 1

\* BalancingStrategy
ROUND_ROBIN == 0
WEIGHTED_ROUND_ROBIN == 1
RANDOM == 2
WEIGHTED_RANDOM == 3
LEAST_CONNECTIONS == 4

\* Outcomes of a call that are not a server (servers are named 1..Len(servers))
NoServer == 0       \* `return None`
ValueError == -1    \* randint(0, total_weight - 1) on an empty range
IndexError == -2    \* healthy[i] with i past the end of the healthy list
NoDraw == -1        \* the call did not consult the random generator

-----------------------------------------------------------------------------
(* Server *)

\* Server.__init__
NewServer(w) ==
    [weight |-> w, current_weight |-> 0, effective_weight |-> w,
     active_connections |-> 0, healthy |-> TRUE]

\* Server.increment_connections
increment_connections(s) ==
    [s EXCEPT !.active_connections = @ + 1]

\* decrement without the `> 0` test
decrement_connections_unguarded(s) ==
    [s EXCEPT !.active_connections = @ - 1]

\* Server.decrement_connections
decrement_connections(s) ==
    IF s.active_connections > 0
    THEN [s EXCEPT !.active_connections = @ - 1]
    ELSE s

\* Server.set_healthy
set_healthy(s, status) ==
    [s EXCEPT !.healthy = status]

-----------------------------------------------------------------------------
(* LoadBalancer: derived state *)

RECURSIVE SumTo(_, _)
\* the loop of _calculate_total_weight over servers[1..k]
SumTo(srv, k) ==
    IF k = 0 THEN 0
    ELSE SumTo(srv, k - 1) + (IF srv[k].healthy THEN srv[k].weight ELSE 0)

calculate_total_weight(srv) == SumTo(srv, Len(srv))

RECURSIVE CumTo(_, _)
\* the loop of _calculate_cumulative_weights over servers[1..k]
CumTo(srv, k) ==
    IF k = 0 THEN << >>
    ELSE IF srv[k].healthy
         THEN Append(CumTo(srv, k - 1), SumTo(srv, k))
         ELSE CumTo(srv, k - 1)

calculate_cumulative_weights(srv) == CumTo(srv, Len(srv))

\* every server, whatever its healthy flag
get_all_servers(srv) == [i \in 1..Len(srv) |-> i]

RECURSIVE HealthyTo(_, _)
HealthyTo(srv, k) ==
    IF k = 0 THEN << >>
    ELSE IF srv[k].healthy
         THEN Append(HealthyTo(srv, k - 1), k)
         ELSE HealthyTo(srv, k - 1)

\* _get_healthy_server: the healthy servers (by position), in stored order
get_healthy_server(srv) == HealthyTo(srv, Len(srv))

-----------------------------------------------------------------------------
(* LoadBalancer: strategies.  Each returns [res, srv, idx, drw]: the value   *)
(* returned (or the exception raised), the servers and cursor afterwards,    *)
(* and the random draw used.                                                 *)

Outcome(res, srv, idx, drw) ==
    [res |-> res, srv |-> srv, idx |-> idx, drw |-> drw]

\* `self.current_index += 1` on a C int
IncInt(x) == IF x = IntMax THEN IntMin ELSE x + 1

\* round robin whose cursor increment is lost
round_robin_lost_update(srv, idx) ==
    LET healthy == get_healthy_server(srv) IN
    IF healthy = << >>
    THEN Outcome(NoServer, srv, idx, NoDraw)
    ELSE Outcome(healthy[(idx % Len(healthy)) + 1], srv, idx, NoDraw)

\* _round_robin
round_robin(srv, idx) ==
    LET healthy == get_healthy_server(srv) IN
    IF healthy = << >>
    THEN Outcome(NoServer, srv, idx, NoDraw)
    ELSE Outcome(healthy[(idx % Len(healthy)) + 1], srv, IncInt(idx), NoDraw)

RECURSIVE WrrScanTotalOfAll(_, _)
\* the for-loop with the effective_weight of the servers that are not healthy
\* counted in the total as well
WrrScanTotalOfAll(srv, k) ==
    IF k = 0 THEN [srv |-> srv, best |-> NoServer, total |-> 0]
    ELSE LET p == WrrScanTotalOfAll(srv, k - 1) IN
         IF ~ p.srv[k].healthy
         THEN [p EXCEPT !.total = @ + p.srv[k].effective_weight]
         ELSE LET cw  == p.srv[k].current_weight + p.srv[k].effective_weight
                  nxt == [p.srv EXCEPT ![k].current_weight = cw]
              IN [srv   |-> nxt,
                  best  |-> IF p.best = NoServer
                               \/ cw > nxt[p.best].current_weight
                            THEN k ELSE p.best,
                  total |-> p.total + p.srv[k].effective_weight]

RECURSIVE WrrScanLastOnTies(_, _)
\* the for-loop with `>=` in place of `>`: the last of equal weights wins
WrrScanLastOnTies(srv, k) ==
    IF k = 0 THEN [srv |-> srv, best |-> NoServer, total |-> 0]
    ELSE LET p == WrrScanLastOnTies(srv, k - 1) IN
         IF ~ p.srv[k].healthy THEN p
         ELSE LET cw  == p.srv[k].current_weight + p.srv[k].effective_weight
                  nxt == [p.srv EXCEPT ![k].current_weight = cw]
              IN [srv   |-> nxt,
                  best  |-> IF p.best = NoServer
                               \/ cw >= nxt[p.best].current_weight
                            THEN k ELSE p.best,
                  total |-> p.total + p.srv[k].effective_weight]

RECURSIVE WrrScan(_, _)
\* the for-loop of _weighted_round_robin after servers[1..k]:
\* [srv, best, total]
WrrScan(srv, k) ==
    IF k = 0 THEN [srv |-> srv, best |-> NoServer, total |-> 0]
    ELSE LET p == WrrScan(srv, k - 1) IN
         IF ~ p.srv[k].healthy THEN p
         ELSE LET cw  == p.srv[k].current_weight + p.srv[k].effective_weight
                  nxt == [p.srv EXCEPT ![k].current_weight = cw]
              IN [srv   |-> nxt,
                  best  |-> IF p.best = NoServer
                               \/ cw > nxt[p.best].current_weight
                            THEN k ELSE p.best,
                  total |-> p.total + p.srv[k].effective_weight]

\* weighted round robin that takes the winner's own weight off, not the total
weighted_round_robin_own_weight(srv, idx) ==
    LET p == WrrScan(srv, Len(srv)) IN
    IF p.best # NoServer
    THEN Outcome(p.best,
                 [p.srv EXCEPT ![p.best].current_weight =
                                  @ - p.srv[p.best].effective_weight],
                 idx, NoDraw)
    ELSE Outcome(NoServer, p.srv, idx, NoDraw)

\* _weighted_round_robin
weighted_round_robin(srv, idx) ==
    LET p == WrrScan(srv, Len(srv)) IN
    IF p.best # NoServer
    THEN Outcome(p.best,
                 [p.srv EXCEPT ![p.best].current_weight = @ - p.total],
                 idx, NoDraw)
    ELSE Outcome(NoServer, p.srv, idx, NoDraw)

\* randint(a, b): the values the generator can return; empty when b < a
RandInt(a, b) == a..b

\* _random: one outcome per value the generator can return
random_choice(srv, idx) ==
    LET healthy == get_healthy_server(srv) IN
    IF healthy = << >>
    THEN {Outcome(NoServer, srv, idx, NoDraw)}
    ELSE {Outcome(healthy[r + 1], srv, idx, r) :
             r \in RandInt(0, Len(healthy) - 1)}

RECURSIVE WrScanInclusive(_, _, _, _)
\* the scan with `<=` in place of `<`
WrScanInclusive(healthy, cum, rv, i) ==
    IF i >= Len(cum)
    THEN (IF healthy = << >> THEN IndexError ELSE healthy[Len(healthy)])
    ELSE IF rv <= cum[i + 1]
         THEN (IF i < Len(healthy) THEN healthy[i + 1] ELSE IndexError)
         ELSE WrScanInclusive(healthy, cum, rv, i + 1)

RECURSIVE WrScan(_, _, _, _)
\* the for-loop of _weighted_random from position i (0-based) on, then the
\* fallback `healthy[-1]`
WrScan(healthy, cum, rv, i) ==
    IF i >= Len(cum)
    THEN (IF healthy = << >> THEN IndexError ELSE healthy[Len(healthy)])
    ELSE IF rv < cum[i + 1]
         THEN (IF i < Len(healthy) THEN healthy[i + 1] ELSE IndexError)
         ELSE WrScan(healthy, cum, rv, i + 1)

\* the draw and scan of _weighted_random, after its `if not healthy` test
WrDraw(healthy, srv, idx, tw, cum) ==
    IF RandInt(0, tw - 1) = {}
    THEN {Outcome(ValueError, srv, idx, NoDraw)}
    ELSE {Outcome(WrScan(healthy, cum, r, 0), srv, idx, r) :
             r \in RandInt(0, tw - 1)}

\* weighted random without the `if not healthy: return None` test
weighted_random_unguarded(srv, idx, tw, cum) ==
    WrDraw(get_healthy_server(srv), srv, idx, tw, cum)

\* _weighted_random: one outcome per value the generator can return
weighted_random(srv, idx, tw, cum) ==
    LET healthy == get_healthy_server(srv) IN
    IF healthy = << >>
    THEN {Outcome(NoServer, srv, idx, NoDraw)}
    ELSE WrDraw(healthy, srv, idx, tw, cum)

RECURSIVE LcScanLast(_, _)
\* the scan with `<=` in place of `<`: the last minimum wins
LcScanLast(srv, k) ==
    IF k = 0 THEN NoServer
    ELSE LET b == LcScanLast(srv, k - 1) IN
         IF ~ srv[k].healthy THEN b
         ELSE IF b = NoServer
                 \/ srv[k].active_connections <= srv[b].active_connections
              THEN k ELSE b

RECURSIVE LcScan(_, _)
\* the for-loop of _least_connections after servers[1..k]: best
LcScan(srv, k) ==
    IF k = 0 THEN NoServer
    ELSE LET b == LcScan(srv, k - 1) IN
         IF ~ srv[k].healthy THEN b
         ELSE IF b = NoServer
                 \/ srv[k].active_connections < srv[b].active_connections
              THEN k ELSE b

\* least connections that counts the connection of the server it returns
least_connections_counting(srv, idx) ==
    LET b == LcScan(srv, Len(srv)) IN
    Outcome(b,
            IF b = NoServer THEN srv
            ELSE [srv EXCEPT ![b] = increment_connections(@)],
            idx, NoDraw)

\* _least_connections
least_connections(srv, idx) ==
    Outcome(LcScan(srv, Len(srv)), srv, idx, NoDraw)

\* get_next_server whose last line returns the first healthy server
get_next_server_first_healthy(srv, strat, idx, tw, cum) ==
    CASE strat = ROUND_ROBIN -> {round_robin(srv, idx)}
      [] strat = WEIGHTED_ROUND_ROBIN -> {weighted_round_robin(srv, idx)}
      [] strat = RANDOM -> random_choice(srv, idx)
      [] strat = WEIGHTED_RANDOM -> weighted_random(srv, idx, tw, cum)
      [] strat = LEAST_CONNECTIONS -> {least_connections(srv, idx)}
      [] OTHER ->
            LET healthy == get_healthy_server(srv) IN
            {Outcome(IF healthy # << >> THEN healthy[1] ELSE NoServer,
                     srv, idx, NoDraw)}

\* get_next_server: the set of outcomes the call can have in this state
get_next_server(srv, strat, idx, tw, cum) ==
    CASE strat = ROUND_ROBIN -> {round_robin(srv, idx)}
      [] strat = WEIGHTED_ROUND_ROBIN -> {weighted_round_robin(srv, idx)}
      [] strat = RANDOM -> random_choice(srv, idx)
      [] strat = WEIGHTED_RANDOM -> weighted_random(srv, idx, tw, cum)
      [] strat = LEAST_CONNECTIONS -> {least_connections(srv, idx)}
      [] OTHER ->
            {Outcome(IF srv # << >> THEN 1 ELSE NoServer, srv, idx, NoDraw)}

-----------------------------------------------------------------------------
(* CacheManager over a store with expiring keys *)

CacheKeys == {"cache:a", "cache:b"}
\* the slots of the store's key table, in the order SCAN walks them
KeyOrder == <<"cache:a", "cache:b">>
\* cluster deployment: the "cache:" keys whose hash slot another node serves
ShardKeys == {"cache:c"}
Responses == {"resp1", "resp2"}

\* `default_ttl : int = 3600`
DefaultTtl == 3600
\* `int ttl = -1`: no ttl given
TtlNotGiven == -1

NoEntry == [data |-> << >>, expires |-> 0]
NoWrite == [value |-> "None", at |-> 0, ttl |-> 0]

\* pickle.dumps / pickle.loads
Dumps(v) == <<"pickle", v>>
Loads(data) == data[2]

\* `if ttl == -1: ttl = self.default_ttl`, with every ttl taken as the default
EffectiveTtlAlwaysDefault(ttl, dflt) == dflt

\* `if ttl == -1: ttl = self.default_ttl`
EffectiveTtl(ttl, dflt) == IF ttl = TtlNotGiven THEN dflt ELSE ttl

\* the store's GET at time t: the value of a key that has not expired, else nil
StoreGet(st, k, t) ==
    IF st[k] # NoEntry /\ t < st[k].expires THEN st[k].data ELSE << >>

\* the store's SETEX at time t (the store refuses an expiry that is not positive)
StoreSetex(st, k, ttl, data, t) ==
    [st EXCEPT ![k] = [data |-> data, expires |-> t + ttl]]

\* the keys the store holds at time t
LiveKeys(st, t) == {k \in CacheKeys : StoreGet(st, k, t) # << >>}

\* the store's DEL of the keys ks at time t: the store without them, and the
\* integer reply (how many of them it held)
StoreDel(st, ks, t) ==
    [store   |-> [k \in CacheKeys |-> IF k \in ks THEN NoEntry ELSE st[k]],
     removed |-> Cardinality(ks \cap LiveKeys(st, t))]

\* the store's SCAN at time t from cursor c over `count` slots of the key table
\* (match "cache:*"): the next cursor, 0 once the table is walked, and the keys
\* met
StoreScan(st, c, count, t) ==
    LET last == IF c + count >= Len(KeyOrder) THEN Len(KeyOrder) ELSE c + count
    IN [cursor |-> IF last = Len(KeyOrder) THEN 0 ELSE last,
        keys   |-> {KeyOrder[i] : i \in (c + 1)..last} \cap LiveKeys(st, t)]

\* the store drops the keys whose expiry has passed at time t
StoreExpire(st, t) ==
    [k \in CacheKeys |-> IF st[k] # NoEntry /\ t >= st[k].expires
                         THEN NoEntry ELSE st[k]]

\* `bool(...)` of the store's integer reply, with every reply taken as true
bool_of_any_reply(n) == "True"

\* `bool(...)` of the store's integer reply
bool(n) == IF n # 0 THEN "True" ELSE "False"

\* what an operation returns, with `except Exception` letting the error through
except_reraises(op) ==
    IF op = "get_stats" THEN [raised |-> "Exception"] ELSE "Exception"

\* what the `except Exception` clause of each operation returns
except_returns(op) ==
    CASE op = "get"       -> "None"
      [] op = "set"       -> "False"
      [] op = "delete"    -> "False"
      [] op = "clear_all" -> "False"
      [] op = "get_stats" -> [total_keys |-> 0, error |-> "Exception"]

\* the connection an operation goes through: `if self.redis_cluster: ... else:
\* ... self.redis_client ...`
Handle(cluster, client) == IF cluster # "None" THEN cluster ELSE client

\* `count=100`: the slots of the key table one SCAN call of clear_all walks
ScanCount == 1
\* `count=1000`: the slots the one SCAN call of get_stats walks
StatsCount == 10 * ScanCount

\* the most store calls one clear_all makes: a SCAN and a DEL per slot
MaxStoreCalls == 2 * Len(KeyOrder)

RECURSIVE ScanLoop(_, _, _, _, _)
\* the `while cursor:` loop of clear_all from cursor c at time t, after n store
\* calls; the store call number `fail` raises (0: none does)
ScanLoop(st, c, n, fail, t) ==
    IF fail = n + 1
    THEN [store |-> st, ok |-> FALSE]
    ELSE LET page == StoreScan(st, c, ScanCount, t) IN
         IF page.keys # {} /\ fail = n + 2
         THEN [store |-> st, ok |-> FALSE]
         ELSE LET st2 == IF page.keys # {}
                         THEN StoreDel(st, page.keys, t).store ELSE st
                  n2  == IF page.keys # {} THEN n + 2 ELSE n + 1
              IN IF page.cursor = 0
                 THEN [store |-> st2, ok |-> TRUE]
                 ELSE ScanLoop(st2, page.cursor, n2, fail, t)

\* clear_all: over every node of redis_cluster when there is one, else the scan
\* loop over the node redis_client is connected to
clear_all(cluster, client, st, sh, fail, t) ==
    IF cluster # "None"
    THEN IF fail # 0
         THEN [store |-> st, shard |-> sh, ok |-> FALSE]
         ELSE [store |-> [k \in CacheKeys |-> NoEntry], shard |-> {},
               ok |-> TRUE]
    ELSE IF client = "None"
         THEN [store |-> st, shard |-> sh, ok |-> FALSE]
         ELSE LET r == ScanLoop(st, 0, 0, fail, t)
              IN [store |-> r.store, shard |-> sh, ok |-> r.ok]

\* get_stats: the keys of every node of redis_cluster when there is one, else
\* those of one SCAN call through redis_client
get_stats(cluster, client, st, sh, io, t) ==
    IF cluster # "None"
    THEN IF io
         THEN [total_keys |-> Cardinality(LiveKeys(st, t)) + Cardinality(sh),
               cluster_mode |-> TRUE]
         ELSE except_returns("get_stats")
    ELSE IF client # "None" /\ io
         THEN [total_keys |-> Cardinality(StoreScan(st, 0, StatsCount, t).keys),
               cluster_mode |-> FALSE]
         ELSE except_returns("get_stats")

\* no generate_cache_key call made yet
NoRequest == [method |-> "", url |-> "", header |-> << >>, body |-> ""]
NoKey == ""
NoKeyYet ==
    /\ request = NoRequest
    /\ cache_key = NoKey

\* CacheManager.__init__(default_ttl, use_cluster): `redis_cluster = ...` binds
\* a local name, the field keeps the None assigned before
ManagerConstructed(dflt, uc) ==
    /\ redis_client = "None"
    /\ redis_cluster = "None"
    /\ use_cluster = uc
    /\ default_ttl = dflt
    /\ store = [k \in CacheKeys |-> NoEntry]
    /\ shard = {}
    /\ now = 0
    /\ cacheOp = [op |-> "init", key |-> "", failed |-> FALSE]
    /\ cacheResult = "None"
    /\ written = [k \in CacheKeys |-> NoWrite]

\* CacheManager(default_ttl = dflt)
CacheConstructed(dflt) ==
    /\ ManagerConstructed(dflt, FALSE)
    /\ NoKeyYet

-----------------------------------------------------------------------------
(* Initial state: LoadBalancer(servers, strategy) over freshly built servers *)

Strategies == {ROUND_ROBIN, WEIGHTED_ROUND_ROBIN, RANDOM, WEIGHTED_RANDOM,
               LEAST_CONNECTIONS}

\* the configured backends' weights (`--servers name:weight`, in order)
ConfiguredWeights == <<5, 3, 1, 2>>

\* the balancer is built over the first n configured backends
ServerLists ==
    {[i \in 1..n |-> NewServer(ConfiguredWeights[i])] : n \in 0..MaxServers}

\* the balancer built over srv, its cursor at `cursor`
Started(srv, strat, cursor) ==
    /\ servers = srv
    /\ strategy = strat
    /\ current_index = cursor
    /\ total_weight = calculate_total_weight(srv)
    /\ cumulative_weights = calculate_cumulative_weights(srv)
    /\ result = NoServer
    /\ draw = NoDraw
    /\ calls = 0
    /\ picks = [i \in 1..Len(srv) |-> 0]
    /\ lastOp = "init"

\* LoadBalancer.__init__
Constructed(srv, strat) == Started(srv, strat, 0)

Init ==
    /\ \E srv \in ServerLists, strat \in Strategies : Constructed(srv, strat)
    /\ CacheConstructed(DefaultTtl)

-----------------------------------------------------------------------------
(* Operations *)

\* the rotating strategies: their cursor / current weights grow with every call
Rotating == {ROUND_ROBIN, WEIGHTED_ROUND_ROBIN}

\* one get_next_server call: a plain (cpdef) method with no suspension point,
\* so a call made by any coroutine runs from entry to return in one step
Call ==
    \E o \in get_next_server(servers, strategy, current_index,
                             total_weight, cumulative_weights) :
        /\ servers' = o.srv
        /\ current_index' = o.idx
        /\ result' = o.res
        /\ draw' = o.drw
        /\ calls' = IF strategy \in Rotating THEN calls + 1 ELSE calls
        /\ lastOp' = "get_next_server"
        /\ UNCHANGED <<strategy, total_weight, cumulative_weights, cacheVars>>

GetNextServer ==
    /\ calls < MaxCalls
    /\ Call
    /\ UNCHANGED picks

SetHealthy(i, status) ==
    /\ servers' = [servers EXCEPT ![i] = set_healthy(@, status)]
    /\ lastOp' = "set_healthy"
    /\ UNCHANGED <<strategy, current_index, total_weight, cumulative_weights,
                   result, draw, calls, picks, cacheVars>>

\* refresh_weight
RefreshWeight ==
    /\ total_weight' = calculate_total_weight(servers)
    /\ cumulative_weights' = calculate_cumulative_weights(servers)
    /\ lastOp' = "refresh_weight"
    /\ UNCHANGED <<servers, strategy, current_index, result, draw, calls, picks,
                   cacheVars>>

IncrementConnections(i) ==
    /\ servers[i].active_connections < MaxConn
    /\ servers' = [servers EXCEPT ![i] = increment_connections(@)]
    /\ lastOp' = "increment_connections"
    /\ UNCHANGED <<strategy, current_index, total_weight, cumulative_weights,
                   result, draw, calls, picks, cacheVars>>

DecrementConnections(i) ==
    /\ servers' = [servers EXCEPT ![i] = decrement_connections(@)]
    /\ lastOp' = "decrement_connections"
    /\ UNCHANGED <<strategy, current_index, total_weight, cumulative_weights,
                   result, draw, calls, picks, cacheVars>>

Next ==
    \/ GetNextServer
    \/ \E i \in 1..Len(servers), status \in BOOLEAN : SetHealthy(i, status)
    \/ RefreshWeight
    \/ \E i \in 1..Len(servers) : IncrementConnections(i)
    \/ \E i \in 1..Len(servers) : DecrementConnections(i)

Spec == Init /\ [][Next]_vars

-----------------------------------------------------------------------------
(* A steady run: the rotating strategies over a fixed, all-healthy server    *)
(* set of any weights, with nothing happening but get_next_server calls.     *)
(* The cursor starts where a balancer that has served earlier calls has it.  *)

SteadyServers == 3
SteadyWeight == 5
SteadyBlocks == 2

SteadyLists ==
    UNION {[1..n -> {NewServer(w) : w \in 1..SteadyWeight}] :
              n \in 1..SteadyServers}

\* cursor values of a round-robin balancer: new, and after IntMax - 1 and
\* IntMax earlier calls
StartCursors == {0, IntMax - 1, IntMax}

InitSteady ==
    /\ \E srv \in SteadyLists, strat \in Rotating :
          \E cursor \in (IF strat = ROUND_ROBIN THEN StartCursors ELSE {0}) :
              Started(srv, strat, cursor)
    /\ CacheConstructed(DefaultTtl)

\* a call of the steady run; the run counts what each call returned
SteadyCall ==
    /\ calls < SteadyBlocks * total_weight
    /\ Call
    /\ picks' = IF result' \in 1..Len(servers)
                THEN [picks EXCEPT ![result'] = @ + 1]
                ELSE picks

NextSteady == SteadyCall

SpecSteady == InitSteady /\ [][NextSteady]_vars

-----------------------------------------------------------------------------------------------------------------------------------------------------
(* Weighted round robin over servers of equal and unequal weights whose      *)
(* health flips between the calls.                                           *)

TieWeights == {1, 2}

InitWrr ==
    /\ \E n \in 1..MaxServers :
          \E srv \in [1..n -> {NewServer(w) : w \in TieWeights}] :
              Constructed(srv, WEIGHTED_ROUND_ROBIN)
    /\ CacheConstructed(DefaultTtl)

NextWrr ==
    \/ GetNextServer
    \/ \E i \in 1..Len(servers), status \in BOOLEAN : SetHealthy(i, status)

SpecWrr == InitWrr /\ [][NextWrr]_vars

-----------------------------------------------------------------------------
(* Balancers built with a strategy that is none of the five, or with none.   *)

\* `strategy = 1`: the strategy of LoadBalancer(servers)
DefaultStrategy == 1

\* strategy values that are not a BalancingStrategy
OtherStrategies == {-1, 5}

InitOther ==
    /\ \E srv \in ServerLists, strat \in OtherStrategies \cup {DefaultStrategy} :
          Constructed(srv, strat)
    /\ CacheConstructed(DefaultTtl)

SpecOther == InitOther /\ [][Next]_vars

-----------------------------------------------------------------------------
(* The CacheManager's operations.  An operation fails (something raises      *)
(* inside its try block) when the manager is not connected, when the store   *)
(* cannot be reached or pickling fails (io = FALSE), or when the store       *)
(* refuses the command; every operation catches that.                        *)

\* connect
Connect ==
    /\ redis_client' = IF redis_client = "None" THEN "client" ELSE redis_client
    /\ cacheOp' = [op |-> "connect", key |-> "", failed |-> FALSE]
    /\ UNCHANGED <<default_ttl, store, now, cacheResult, written,
                   redis_cluster, use_cluster, shard, keyVars, lbVars>>

\* get(cache_key)
CacheGet(k, io) ==
    LET ok   == Handle(redis_cluster, redis_client) # "None" /\ io
        data == StoreGet(store, k, now)
    IN /\ cacheResult' = IF ok
                         THEN IF data # << >> THEN Loads(data) ELSE "None"
                         ELSE except_returns("get")
       /\ cacheOp' = [op |-> "get", key |-> k, failed |-> ~ ok]
       /\ UNCHANGED <<redis_client, default_ttl, store, now, written,
                      redis_cluster, use_cluster, shard, keyVars, lbVars>>

\* set(cache_key, response_data, ttl)
CacheSet(k, v, ttlArg, io) ==
    LET ttl == EffectiveTtl(ttlArg, default_ttl)
        ok  == Handle(redis_cluster, redis_client) # "None" /\ io /\ ttl > 0
    IN /\ store' = IF ok THEN StoreSetex(store, k, ttl, Dumps(v), now)
                   ELSE store
       /\ cacheResult' = IF ok THEN "True" ELSE except_returns("set")
       /\ cacheOp' = [op |-> "set", key |-> k, failed |-> ~ ok]
       /\ written' = [written EXCEPT ![k] =
                        IF ok THEN [value |-> v, at |-> now, ttl |-> ttlArg]
                        ELSE NoWrite]
       /\ UNCHANGED <<redis_client, default_ttl, now, redis_cluster,
                      use_cluster, shard, keyVars, lbVars>>

\* delete(cache_key)
CacheDelete(k, io) ==
    LET ok  == Handle(redis_cluster, redis_client) # "None" /\ io
        del == StoreDel(store, {k}, now)
    IN /\ store' = IF ok THEN del.store ELSE store
       /\ cacheResult' = IF ok THEN bool(del.removed)
                         ELSE except_returns("delete")
       /\ cacheOp' = [op |-> "delete", key |-> k, failed |-> ~ ok]
       /\ written' = [written EXCEPT ![k] = NoWrite]
       /\ UNCHANGED <<redis_client, default_ttl, now, redis_cluster,
                      use_cluster, shard, keyVars, lbVars>>

\* clear_all(); the store call number `fail` raises (0: none does)
ClearAll(fail) ==
    LET r == clear_all(redis_cluster, redis_client, store, shard, fail, now)
    IN /\ store' = r.store
       /\ shard' = r.shard
       /\ cacheResult' = IF r.ok THEN "True" ELSE except_returns("clear_all")
       /\ cacheOp' = [op |-> "clear_all", key |-> "", failed |-> ~ r.ok]
       /\ written' = [k \in CacheKeys |->
                        IF r.store[k] = NoEntry THEN NoWrite ELSE written[k]]
       /\ UNCHANGED <<redis_client, default_ttl, now, redis_cluster,
                      use_cluster, keyVars, lbVars>>

\* get_stats()
GetStats(io) ==
    /\ cacheResult' = get_stats(redis_cluster, redis_client, store, shard,
                                io, now)
    /\ cacheOp' = [op |-> "get_stats", key |-> "",
                   failed |-> ~ (/\ Handle(redis_cluster, redis_client) # "None"
                                 /\ io)]
    /\ UNCHANGED <<redis_client, default_ttl, store, now, written,
                   redis_cluster, use_cluster, shard, keyVars, lbVars>>

\* a second passes; the store expires the keys that are due
Tick ==
    /\ now < MaxTime
    /\ now' = now + 1
    /\ store' = StoreExpire(store, now + 1)
    /\ cacheOp' = [op |-> "tick", key |-> "", failed |-> FALSE]
    /\ UNCHANGED <<redis_client, default_ttl, cacheResult, written,
                   redis_cluster, use_cluster, shard, keyVars, lbVars>>

\* cluster deployment: another proxy instance stores an entry under a key
\* that hashes to a slot of another node
PeerSet(k) ==
    /\ use_cluster
    /\ shard' = shard \cup {k}
    /\ cacheOp' = [op |-> "peer_set", key |-> k, failed |-> FALSE]
    /\ UNCHANGED <<redis_client, default_ttl, store, now, cacheResult,
                   written, redis_cluster, use_cluster, keyVars, lbVars>>

InitCache ==
    /\ Constructed(<< >>, WEIGHTED_ROUND_ROBIN)
    /\ \E dflt \in 1..MaxTtl : CacheConstructed(dflt)

NextCache ==
    \/ Connect
    \/ \E k \in CacheKeys, io \in BOOLEAN : CacheGet(k, io)
    \/ \E k \in CacheKeys, v \in Responses, ttlArg \in TtlNotGiven..MaxTtl,
          io \in BOOLEAN : CacheSet(k, v, ttlArg, io)
    \/ \E k \in CacheKeys, io \in BOOLEAN : CacheDelete(k, io)
    \/ Tick

SpecCache == InitCache /\ [][NextCache]_vars

\* Every operation of the manager, built for a single node or for a cluster
\* deployment (use_cluster = True); entries are stored with the default ttl and
\* the clock stands still
InitCluster ==
    /\ Constructed(<< >>, WEIGHTED_ROUND_ROBIN)
    /\ \E uc \in BOOLEAN : ManagerConstructed(DefaultTtl, uc)
    /\ NoKeyYet

NextCluster ==
    \/ Connect
    \/ \E k \in CacheKeys, io \in BOOLEAN : CacheGet(k, io)
    \/ \E k \in CacheKeys, v \in Responses, io \in BOOLEAN :
          CacheSet(k, v, TtlNotGiven, io)
    \/ \E k \in CacheKeys, io \in BOOLEAN : CacheDelete(k, io)
    \/ \E fail \in 0..MaxStoreCalls : ClearAll(fail)
    \/ \E io \in BOOLEAN : GetStats(io)
    \/ \E k \in ShardKeys : PeerSet(k)

SpecCluster == InitCluster /\ [][NextCluster]_vars

-----------------------------------------------------------------------------
(* generate_cache_key.  A header mapping (a dict) is the sequence of its     *)
(* <<name, value>> entries in insertion order, no name twice; strings are    *)
(* built by concatenation as the code builds them; a digest is an injective  *)
(* function of its input, written digest(input).                             *)

Methods == {"GET", "POST"}
Urls == {"/p", "/p:1"}
\* b"" : no body
Bodies == {"", "x", "y"}
HeaderNames == {"Accept", "accept", "Accept-Language", "X-Trace"}
HeaderValues == {"json", "xml"}

Headers ==
    {h \in UNION {[1..n -> HeaderNames \X HeaderValues] : n \in 0..MaxHeaders} :
        \A i, j \in 1..Len(h) : i # j => h[i][1] # h[j][1]}

Requests == [method : Methods, url : Urls, header : Headers, body : Bodies]

\* `k.lower()`, with the name left as it is written
no_lower(name) == name

\* `k.lower()`
lower(name) ==
    CASE name = "Accept"          -> "accept"
      [] name = "accept"          -> "accept"
      [] name = "Accept-Language" -> "accept-language"
      [] name = "X-Trace"         -> "x-trace"

\* `['accept', 'accept-encoding', 'accept-language']`; the list is in sorted
\* order, the order json.dumps(..., sort_keys=True) writes the keys in
AllowList == <<"accept", "accept-encoding", "accept-language">>
Allowed(name) == \E i \in 1..Len(AllowList) : AllowList[i] = name

RECURSIVE CacheHeaders(_, _)
\* `{k.lower(): v for k, v in header.items() if k.lower() in [...]}` after the
\* first n entries of header: a later entry replaces an earlier one of the
\* same lowered name
CacheHeaders(h, n) ==
    IF n = 0 THEN [x \in {} |-> ""]
    ELSE LET d == CacheHeaders(h, n - 1)
             k == lower(h[n][1])
         IN IF Allowed(k)
            THEN [x \in DOMAIN d \cup {k} |-> IF x = k THEN h[n][2] ELSE d[x]]
            ELSE d

RECURSIVE JsonItems(_, _, _)
\* the items of json.dumps(d, sort_keys=True) from the i-th key on; `first`:
\* no item written yet
JsonItems(d, i, first) ==
    IF i > Len(AllowList) THEN ""
    ELSE LET k == AllowList[i] IN
         IF k \in DOMAIN d
         THEN (IF first THEN "" ELSE ", ")
                  \o "\"" \o k \o "\": \"" \o d[k] \o "\""
                  \o JsonItems(d, i + 1, FALSE)
         ELSE JsonItems(d, i + 1, first)

\* json.dumps(cache_headers, sort_keys=True)
json_dumps(d) == "{" \o JsonItems(d, 1, TRUE) \o "}"

\* hashlib.md5(body).hexdigest(), hashlib.sha256(key_parts.encode()).hexdigest()
md5(b) == "md5(" \o b \o ")"
sha256(str) == "sha256(" \o str \o ")"

\* _generate_cache_key(method, url, header, body)
generate_cache_key(method, url, header, body) ==
    LET cache_headers == CacheHeaders(header, Len(header))
        parts1 == method \o ":" \o url
        parts2 == IF header # << >> /\ DOMAIN cache_headers # {}
                  THEN parts1 \o ":" \o json_dumps(cache_headers)
                  ELSE parts1
        parts3 == IF body # "" THEN parts2 \o ":" \o md5(body) ELSE parts2
    IN "cache:" \o sha256(parts3)

\* the key of request r
KeyOf(r) == generate_cache_key(r.method, r.url, r.header, r.body)

\* a manager, and a request to generate the key of
InitKey ==
    /\ Constructed(<< >>, WEIGHTED_ROUND_ROBIN)
    /\ ManagerConstructed(DefaultTtl, FALSE)
    /\ request \in Requests
    /\ cache_key = NoKey

\* generate_cache_key(method, url, header, body)
GenerateCacheKey ==
    /\ cache_key = NoKey
    /\ cache_key' = KeyOf(request)
    /\ UNCHANGED <<request, redis_client, default_ttl, store, now, cacheOp,
                   cacheResult, written, redis_cluster, use_cluster, shard,
                   lbVars>>

NextKey == GenerateCacheKey

SpecKey == InitKey /\ [][NextKey]_vars

-----------------------------------------------------------------------------
(* Vocabulary of the properties *)

Idx == 1..Len(servers)
HealthySet == {i \in Idx : servers[i].healthy}
AfterCall == lastOp = "get_next_server"

\* the derived state is that of the current healthy set
Fresh ==
    /\ total_weight = calculate_total_weight(servers)
    /\ cumulative_weights = calculate_cumulative_weights(servers)

RECURSIVE SumSeq(_, _)
SumSeq(f, k) == IF k = 0 THEN 0 ELSE SumSeq(f, k - 1) + f[k]

-----------------------------------------------------------------------------
(* Properties of the LoadBalancer under Spec *)

\* C1: whatever the strategy, and whatever calls, health flips and refreshes
\* came before, the server a get_next_server call returns is healthy at the
\* time of the call.
C1_NeverReturnsUnhealthy ==
    (AfterCall /\ strategy \in Strategies /\ result \in Idx)
        => servers[result].healthy

\* a server was marked unhealthy, the weights were refreshed, and a weighted
\* random call then returned another server
C1_Witness ==
    /\ AfterCall
    /\ strategy = WEIGHTED_RANDOM
    /\ Fresh
    /\ result \in Idx
    /\ \E i \in Idx : ~ servers[i].healthy

\* C2: with no healthy server (or no server at all) a call returns None under
\* each strategy; it raises nothing, whatever the cursor, the current weights,
\* total_weight and cumulative_weights hold.
C2_NoneWhenNoHealthy ==
    (AfterCall /\ strategy \in Strategies /\ HealthySet = {})
        => result = NoServer

\* weighted random, every server unhealthy, total_weight still that of the
\* healthy servers of before
C2_Witness ==
    /\ AfterCall
    /\ strategy = WEIGHTED_RANDOM
    /\ Idx # {}
    /\ HealthySet = {}
    /\ total_weight > 0
    /\ cumulative_weights # << >>
    /\ result = NoServer

\* C3: whenever get_next_server is called, total_weight is the sum of the
\* weights of the currently healthy servers and cumulative_weights their prefix
\* sums in stored order: no call sees derived state older than a health flip.
C3_CallsSeeFreshDerivedState == AfterCall => Fresh

\* C6: a weighted random call over refreshed derived state draws d in
\* [0, total_weight) and returns the healthy server at the first position i
\* with d < cumulative_weights[i]; over weights [5, 3] draws 0..4 give the
\* first server and draws 5..7 the second.
C6_WeightedRandomByPrefixSum ==
    (AfterCall /\ strategy = WEIGHTED_RANDOM /\ Fresh /\ HealthySet # {}) =>
        LET healthy == get_healthy_server(servers) IN
        /\ draw \in 0..(total_weight - 1)
        /\ \E i \in 1..Len(cumulative_weights) :
              /\ draw < cumulative_weights[i]
              /\ \A j \in 1..(i - 1) : draw >= cumulative_weights[j]
              /\ result = healthy[i]
        /\ (/\ Len(servers) = 2
            /\ servers[1].weight = 5 /\ servers[2].weight = 3
            /\ HealthySet = {1, 2})
              => /\ draw \in 0..4 => result = 1
                 /\ draw \in 5..7 => result = 2

\* weights [5, 3], both healthy: the draw 5 returned the second server
C6_Witness ==
    /\ AfterCall
    /\ strategy = WEIGHTED_RANDOM
    /\ Fresh
    /\ Len(servers) = 2
    /\ servers[1].weight = 5 /\ servers[2].weight = 3
    /\ HealthySet = {1, 2}
    /\ draw = 5
    /\ result = 2

\* r is the first healthy server, in stored order, with the fewest connections
LeastLoadedFirst(r) ==
    /\ r \in HealthySet
    /\ \A j \in HealthySet :
          servers[r].active_connections <= servers[j].active_connections
    /\ \A j \in HealthySet :
          j < r => servers[j].active_connections > servers[r].active_connections

\* C7: a least-connections call returns the healthy server with the fewest
\* active connections, the first such in stored order; and once the server of
\* the previous call has more connections than another healthy server, the
\* next call returns a different server.
C7_LeastConnections ==
    /\ [](AfterCall /\ strategy = LEAST_CONNECTIONS /\ HealthySet # {}
            => LeastLoadedFirst(result))
    /\ [][(/\ lastOp' = "get_next_server"
           /\ strategy = LEAST_CONNECTIONS
           /\ result \in HealthySet
           /\ \E j \in HealthySet : servers[j].active_connections
                                      < servers[result].active_connections)
            => result' # result]_vars

\* the first server was returned, its count was raised past the second's, and
\* the next call returned the second
C7_Witness ==
    /\ AfterCall
    /\ strategy = LEAST_CONNECTIONS
    /\ HealthySet = {1, 2}
    /\ servers[1].active_connections > servers[2].active_connections
    /\ result = 2

\* what one whole round-robin call does to the cursor, from the state before
RoundRobinStep ==
    IF HealthySet = {}
    THEN result' = NoServer /\ current_index' = current_index
    ELSE LET healthy == get_healthy_server(servers) IN
         /\ result' = healthy[(current_index % Len(healthy)) + 1]
         /\ current_index' = current_index + 1

\* what one whole weighted round-robin call does to the current weights
WeightedRoundRobinStep ==
    LET total == SumSeq([i \in Idx |-> IF servers[i].healthy
                                       THEN servers[i].effective_weight
                                       ELSE 0], Len(servers))
    IN \A i \in Idx :
          servers'[i].current_weight =
              servers[i].current_weight
              + (IF servers[i].healthy THEN servers[i].effective_weight ELSE 0)
              - (IF result' = i THEN total ELSE 0)

C9_ConnectionsNeverNegative ==
    /\ [](\A i \in Idx : servers[i].active_connections >= 0)
    /\ [][/\ lastOp' = "increment_connections" =>
               \E i \in Idx :
                  servers' = [servers EXCEPT
                                ![i].active_connections = @ + 1]
          /\ lastOp' = "decrement_connections" =>
               \E i \in Idx :
                  servers' = [servers EXCEPT
                                ![i].active_connections =
                                    IF @ > 0 THEN @ - 1 ELSE 0]]_vars

\* a decrement has just run and the only server's count is 0
C9_Witness ==
    /\ lastOp = "decrement_connections"
    /\ Idx # {}
    /\ \A i \in Idx : servers[i].active_connections = 0

-----------------------------------------------------------------------------
(* Properties of a steady run, under SpecSteady *)

\* the healthy server after r in stored order, cyclically
CyclicNext(r) ==
    LET healthy == get_healthy_server(servers) IN
    IF \E k \in 1..Len(healthy) : healthy[k] = r
    THEN LET k == CHOOSE k \in 1..Len(healthy) : healthy[k] = r
         IN healthy[(k % Len(healthy)) + 1]
    ELSE NoServer

\* C4: round robin over a fixed set of N >= 1 healthy servers: any N
\* consecutive calls, from any cursor value, return each healthy server once,
\* in stored order cyclically; that is, each call returns the healthy server
\* that follows the one the call before returned.
C4_RoundRobinVisitsEachOnce ==
    [][(/\ lastOp = "get_next_server"
        /\ lastOp' = "get_next_server"
        /\ strategy = ROUND_ROBIN)
         => result' = CyclicNext(result)]_vars

\* the sum of the weights
TotalW == SumSeq([i \in Idx |-> servers[i].weight], Len(servers))

\* C5: smooth weighted round robin over a fixed all-healthy set with
\* effective_weight = weight, from current weights 0: after every block of W
\* calls (W the sum of the weights) each server has been selected weight times
\* more and every current_weight is 0 again; over weights [5, 3] a block of 8
\* calls selects the first server 5 times and the second 3 times.
C5_SmoothWeightedBlocks ==
    (/\ strategy = WEIGHTED_ROUND_ROBIN
     /\ \A i \in Idx : servers[i].effective_weight = servers[i].weight
     /\ calls % TotalW = 0) =>
        /\ \A i \in Idx :
              /\ servers[i].current_weight = 0
              /\ picks[i] = servers[i].weight * (calls \div TotalW)
        /\ (/\ Len(servers) = 2
            /\ servers[1].weight = 5 /\ servers[2].weight = 3
            /\ calls = 8)
              => picks = <<5, 3>>

\* weights [5, 3]: two blocks of 8 calls made, 10 and 6 selections
C5_Witness ==
    /\ AfterCall
    /\ strategy = WEIGHTED_ROUND_ROBIN
    /\ Len(servers) = 2
    /\ servers[1].weight = 5 /\ servers[2].weight = 3
    /\ calls = 16
    /\ picks = <<10, 6>>
    /\ \A i \in Idx : servers[i].current_weight = 0

-----------------------------------------------------------------------------
(* Properties of the CacheManager, under SpecCache *)

\* C10: after set(k, v) returned True and with no set / delete of k since, a
\* get(k) that reaches the store returns exactly v while the entry's TTL has
\* not elapsed and None once it has; the TTL is the one given, or default_ttl
\* when none was given.
C10_SetThenGet ==
    (/\ cacheOp.op = "get"
     /\ ~ cacheOp.failed
     /\ written[cacheOp.key] # NoWrite) =>
        LET w   == written[cacheOp.key]
            ttl == IF w.ttl = TtlNotGiven THEN default_ttl ELSE w.ttl
        IN IF now < w.at + ttl
           THEN cacheResult = w.value
           ELSE cacheResult = "None"

\* a set without ttl, some time later but before default_ttl has elapsed a get
\* of the key returned the value
C10_Witness ==
    /\ cacheOp.op = "get"
    /\ ~ cacheOp.failed
    /\ written[cacheOp.key] # NoWrite
    /\ written[cacheOp.key].ttl = TtlNotGiven
    /\ now > written[cacheOp.key].at
    /\ now < written[cacheOp.key].at + default_ttl
    /\ cacheResult = written[cacheOp.key].value

\* C11: delete(k) returns True exactly when the store held k at the time of
\* the call and the call removed it: a delete that reaches the store returns
\* True for a key the store holds, a delete of the same key right after one
\* that returned True returns False, and a get(k) right after a delete that
\* returned True returns None.
C11_DeleteTrueOncePerKey ==
    /\ [][cacheOp'.op = "delete" =>
            LET k    == cacheOp'.key
                held == StoreGet(store, k, now) # << >>
            IN /\ (cacheResult' = "True") <=>
                     (held /\ StoreGet(store', k, now') = << >>)
               /\ (held /\ ~ cacheOp'.failed) => cacheResult' = "True"
               /\ (/\ cacheOp.op = "delete"
                   /\ cacheOp.key = k
                   /\ cacheResult = "True") => cacheResult' = "False"]_vars
    /\ [][(/\ cacheOp.op = "delete"
           /\ cacheResult = "True"
           /\ cacheOp'.op = "get"
           /\ cacheOp'.key = cacheOp.key) => cacheResult' = "None"]_vars

\* a key that a set had stored was deleted: the delete returned True and the
\* store no longer holds the key
C11_Witness ==
    /\ cacheOp.op = "delete"
    /\ ~ cacheOp.failed
    /\ cacheResult = "True"
    /\ StoreGet(store, cacheOp.key, now) = << >>

-----------------------------------------------------------------------------
(* Properties of all the CacheManager's operations, under SpecCluster *)

\* C12: every operation fails closed: when its store call or its pickling
\* raises, or the manager is not connected yet, the operation raises nothing
\* and returns its failure value: get None (what a miss returns), set False,
\* delete False, clear_all False, get_stats a count total_keys = 0.
C12_FailsClosed ==
    cacheOp.failed =>
        CASE cacheOp.op = "get"       -> cacheResult = "None"
          [] cacheOp.op = "set"       -> cacheResult = "False"
          [] cacheOp.op = "delete"    -> cacheResult = "False"
          [] cacheOp.op = "clear_all" -> cacheResult = "False"
          [] cacheOp.op = "get_stats" ->
                /\ "total_keys" \in DOMAIN cacheResult
                /\ cacheResult.total_keys = 0
          [] OTHER -> TRUE

\* the store holds the key, the get's store call raised, and the get returned
\* None as for a miss
C12_Witness ==
    /\ cacheOp.op = "get"
    /\ cacheOp.failed
    /\ redis_client # "None"
    /\ StoreGet(store, cacheOp.key, now) # << >>
    /\ cacheResult = "None"

\* C13: when clear_all returns True no key with the prefix "cache:" remains:
\* none on the node of a single-node deployment and, in a cluster deployment,
\* none on any node.
C13_ClearAllLeavesNoKey ==
    (cacheOp.op = "clear_all" /\ cacheResult = "True") =>
        /\ LiveKeys(store, now) = {}
        /\ shard = {}

\* C16: whatever way get_stats returns, its result carries a cluster_mode flag,
\* and the flag is True exactly when the manager was built with
\* use_cluster = True.
C16_StatsReportClusterMode ==
    cacheOp.op = "get_stats" =>
        /\ "cluster_mode" \in DOMAIN cacheResult
        /\ cacheResult.cluster_mode = use_cluster

-----------------------------------------------------------------------------
(* Properties of generate_cache_key, under SpecKey *)

\* the header mappings that hold the entries of h, inserted in any order
Reordered(h) ==
    {g \in Headers : /\ Len(g) = Len(h)
                     /\ {g[i] : i \in 1..Len(g)} = {h[i] : i \in 1..Len(h)}}

\* C14: the key of a request does not depend on the order in which the
\* entries of its header mapping were inserted, also when the mapping holds
\* names that differ only in letter case ("Accept" and "accept") with
\* different values.
C14_KeyIgnoresInsertionOrder ==
    cache_key # NoKey =>
        \A g \in Reordered(request.header) :
            KeyOf([request EXCEPT !.header = g]) = cache_key

\* the header names that are, in some letter case, accept and accept-language
AcceptNames == {"Accept", "accept"}
ListedNames == AcceptNames \cup {"Accept-Language"}

\* the entries of h with an allow-listed name, in the order of h
RECURSIVE Listed(_, _)
Listed(h, n) ==
    IF n = 0 THEN << >>
    ELSE IF h[n][1] \in ListedNames
         THEN Append(Listed(h, n - 1), h[n])
         ELSE Listed(h, n - 1)

\* the positions of h that hold the accept header
AcceptAt(h) == {i \in 1..Len(h) : h[i][1] \in AcceptNames}

\* C15: requests with the same method, url and body whose header mappings
\* differ only in entries with names outside the allow-list (accept,
\* accept-encoding, accept-language, in any letter case) have the same key;
\* in particular a request with only such entries has the key of the request
\* without headers.  Requests that differ in the value of their accept
\* header, or in the method, or in the url, or in the body (present or not,
\* or its content) have different keys; a digest stands for an injective
\* function.
C15_KeyCoversAllowListOnly ==
    cache_key # NoKey =>
        LET h == request.header IN
        /\ \A g \in Headers :
              Listed(g, Len(g)) = Listed(h, Len(h))
                  => KeyOf([request EXCEPT !.header = g]) = cache_key
        /\ Listed(h, Len(h)) = << >>
              => KeyOf([request EXCEPT !.header = << >>]) = cache_key
        /\ \A i \in AcceptAt(h), v \in HeaderValues :
              (AcceptAt(h) = {i} /\ v # h[i][2])
                  => KeyOf([request EXCEPT !.header[i][2] = v]) # cache_key
        /\ \A m \in Methods \ {request.method} :
              KeyOf([request EXCEPT !.method = m]) # cache_key
        /\ \A u \in Urls \ {request.url} :
              KeyOf([request EXCEPT !.url = u]) # cache_key
        /\ \A b \in Bodies \ {request.body} :
              KeyOf([request EXCEPT !.body = b]) # cache_key

\* the key of a request with a body whose headers are "Accept" and an entry
\* outside the allow-list: the key holds the lowered accept entry and the
\* digest of the body, and nothing of the other entry
C15_Witness ==
    /\ request = [method |-> "GET", url |-> "/p",
                  header |-> << <<"X-Trace", "xml">>, <<"Accept", "json">> >>,
                  body |-> "x"]
    /\ cache_key = "cache:sha256(GET:/p:{\"accept\": \"json\"}:md5(x))"

-----------------------------------------------------------------------------
(* Further properties of the LoadBalancer, under Spec *)

\* C17: a weighted random call made while total_weight / cumulative_weights
\* are stale (a health flip was not followed by refresh_weight) and at least
\* one server is healthy returns a healthy server: it raises nothing, neither
\* by indexing past the healthy list nor by drawing from an empty range.
C17_StaleWeightedRandomStillServes ==
    (AfterCall /\ strategy = WEIGHTED_RANDOM /\ ~ Fresh /\ HealthySet # {})
        => result \in HealthySet

\* C18: under round robin every get_next_server call, whatever it returns
\* (None included, when no server is healthy), leaves the cursor exactly one
\* above its value before the call.
C18_CursorGrowsOnEveryCall ==
    [][(lastOp' = "get_next_server" /\ strategy = ROUND_ROBIN)
          => current_index' = current_index + 1]_vars

\* C20: a get_next_server call under the random, weighted random or least
\* connections strategy changes nothing of the balancer or of its servers:
\* the cursor, total_weight, cumulative_weights and every server's
\* current_weight, effective_weight, active_connections and healthy flag are
\* after the call what they were before; and under no strategy does a call
\* change a server's active_connections.
C20_SelectionLeavesStateAlone ==
    [][lastOp' = "get_next_server" =>
          /\ strategy \in {RANDOM, WEIGHTED_RANDOM, LEAST_CONNECTIONS} =>
                /\ servers' = servers
                /\ current_index' = current_index
                /\ total_weight' = total_weight
                /\ cumulative_weights' = cumulative_weights
          /\ Len(servers') = Len(servers)
          /\ \A i \in Idx : servers'[i].active_connections
                               = servers[i].active_connections]_vars

\* a least-connections call returned the second server, which has no
\* connection, and the first still has the connection it had
C20_Witness ==
    /\ AfterCall
    /\ strategy = LEAST_CONNECTIONS
    /\ Len(servers) = 2
    /\ result = 2
    /\ servers[1].active_connections = 1
    /\ servers[2].active_connections = 0
    /\ \A i \in Idx : servers[i].current_weight = 0
    /\ current_index = 0

-----------------------------------------------------------------------------
(* One weighted round-robin call, under SpecWrr *)

\* current_weight + effective_weight of server i if it is healthy, else its
\* current_weight
Raised(i) ==
    servers[i].current_weight
        + (IF servers[i].healthy THEN servers[i].effective_weight ELSE 0)

\* C19: one weighted round-robin call with a healthy server adds
\* effective_weight to the current_weight of every healthy server, returns the
\* healthy server whose raised current_weight is the highest, the first in
\* stored order among equals, and takes the sum of the healthy servers'
\* effective_weight off that server's current_weight; the servers that are
\* not healthy, and every other field, stay as they were.
C19_OneWeightedRoundRobinCall ==
    [][(/\ lastOp' = "get_next_server"
        /\ strategy = WEIGHTED_ROUND_ROBIN
        /\ HealthySet # {}) =>
          LET total == SumSeq([i \in Idx |-> IF servers[i].healthy
                                             THEN servers[i].effective_weight
                                             ELSE 0], Len(servers))
              r == result'
          IN /\ r \in HealthySet
             /\ \A j \in HealthySet : Raised(j) <= Raised(r)
             /\ \A j \in HealthySet : j < r => Raised(j) < Raised(r)
             /\ servers' =
                  [i \in Idx |->
                     [servers[i] EXCEPT !.current_weight =
                         Raised(i) - (IF i = r THEN total ELSE 0)]]]_vars

\* two servers of the same weight: the first call found them level and
\* returned the first; the second was then marked unhealthy and the second
\* call left its current_weight, which is not 0, as it was
C19_Witness ==
    /\ AfterCall
    /\ Len(servers) = 2
    /\ HealthySet = {1}
    /\ servers[1].weight = servers[2].weight
    /\ calls = 2
    /\ result = 1
    /\ servers[1].current_weight = - servers[1].weight
    /\ servers[2].current_weight = servers[2].weight

\* C21: under weighted round robin, with effective_weight never changed, the
\* current weights of all the servers, healthy or not, add up to 0 after
\* every get_next_server call, whatever calls and health flips came before;
\* and a call made while no server is healthy changes no current_weight.
C21_CurrentWeightsSumToZero ==
    /\ [](strategy = WEIGHTED_ROUND_ROBIN =>
            SumSeq([i \in Idx |-> servers[i].current_weight],
                   Len(servers)) = 0)
    /\ [][(/\ lastOp' = "get_next_server"
           /\ strategy = WEIGHTED_ROUND_ROBIN
           /\ HealthySet = {})
            => /\ result' = NoServer
               /\ servers' = servers]_vars

\* a call left current weights that are not 0, every server was then marked
\* unhealthy, and the next call returned None and left them as they were
C21_Witness ==
    /\ AfterCall
    /\ strategy = WEIGHTED_ROUND_ROBIN
    /\ Len(servers) = 2
    /\ HealthySet = {}
    /\ calls = 2
    /\ result = NoServer
    /\ servers[1].current_weight < 0
    /\ servers[2].current_weight = - servers[1].current_weight

-----------------------------------------------------------------------------
(* Properties of balancers built without one of the five strategies, under   *)
(* SpecOther                                                                 *)

\* C22: a balancer built with a strategy value outside 0..4 returns, on every
\* get_next_server call, the first server of its list, healthy or not, and
\* None only when the list is empty; a balancer built without a strategy has
\* strategy 1 and its calls are weighted round-robin calls.
C22_OtherStrategyReturnsFirstServer ==
    /\ []((AfterCall /\ strategy \notin Strategies) =>
            result = IF servers # << >> THEN 1 ELSE NoServer)
    /\ [](strategy \in Strategies => strategy = WEIGHTED_ROUND_ROBIN)
    /\ [][(lastOp' = "get_next_server" /\ strategy = DefaultStrategy)
            => /\ WeightedRoundRobinStep
               /\ HealthySet # {} => result' \in HealthySet]_vars

\* strategy 5: the first of two servers is marked unhealthy, the second is
\* healthy, and the call returned the first
C22_Witness ==
    /\ AfterCall
    /\ strategy = 5
    /\ Len(servers) = 2
    /\ ~ servers[1].healthy
    /\ servers[2].healthy
    /\ result = 1

====
